---- MODULE Spec2Model ----
(***************************************************************************)
(* Live Page Turner: the streaming harness (main.py), the online DTW       *)
(* tracker with page-turn detection (dtw.py) and the recovery supervisor   *)
(* (recovery_odtw.py over StandardODTW).                                   *)
(*                                                                         *)
(* Three state machines share this module; each has its own variables and  *)
(* its own specification:                                                  *)
(*   SpecHarness   producer threads, GUI callbacks and the state queue     *)
(*   SpecSingle    the harness when START is only clicked with no producer *)
(*                 thread alive (one producer at a time)                   *)
(*   SpecTurns     SpecSingle with one page-turn snapshot followed         *)
(*   SpecSession   SpecSingle without STOP clicks, with a fair GUI thread  *)
(*   SpecTracker   one ODTWTracker: construction, step and reset calls     *)
(*   SpecRecovery  one RecoveryODTW: construction and step calls           *)
(*   SpecJump      the supervisor fed its reference with one backward jump *)
(*   SpecDiagonal  the tracker fed the reference frame for frame           *)
(*   SpecCore      a run that drives either of the two alignment objects   *)
(*   SpecRing      one AudioRingBuffer: construction and append calls      *)
(***************************************************************************)
EXTENDS Integers, Sequences, FiniteSets, TLC

\* ------------------------------------------------------------------ bounds
MaxThreads == 2      \* START clicks (worker threads created) explored
MaxPublish == 6      \* tracker steps explored over all producer threads
MaxSamples == 5      \* samples appended to the ring accumulator before a last block

MaxSteps == 5        \* tracker / supervisor step calls explored
SEARCH_WINDOW == 3   \* search radius W given to the tracker (settings.py uses 100)

\* -------------------------------------------------------- program constants
QueueMax == 5        \* queue.Queue(maxsize=5)
NUM_CHROMA == 12     \* settings.NUM_CHROMA
\* settings.py, reals in hundredths (fixed point, see Unit)
DAMPING_FACTOR == 96
WAIT_PENALTY == 40
SKIP_PENALTY == 20
STEP_PENALTY == 0
START_THRESHOLD_RMS == 1
BPM == 40
BEATS_PER_MEASURE == 4
HOP_LENGTH == 512
SAMPLE_RATE == 44100
FINISH_TOLERANCE == 5    \* `self.n_frames - 5` in _check_page_turn
\* StandardODTW (dtw_live_test.py), reals in hundredths
ENGINE_DAMPING == 99
ENGINE_WAIT == 60
ENGINE_SKIP == 90
ENGINE_DIAGONAL == 0
ENGINE_SMOOTHING == 15

\* ---------------------------------------------------------------- variables
VARIABLES
    \* --- harness (main.py) ---
    stop_event,      \* threading.Event shared by GUI and workers
    state_queue,     \* queue.Queue(maxsize=5): sequence of snapshots, oldest first
    worker_thread,   \* PageTurnerGUI.worker_thread: thread id, 0 = None
    threads,         \* per worker thread: [pc, state] (position in run(), local `state`)
    gui_pc,          \* what the tkinter main thread is executing
    latest_state,    \* local of _poll_state
    after_polls,     \* pending root.after(GUI_UPDATE_MS, _poll_state) callbacks
    start_btn,       \* TRUE = tk.NORMAL, FALSE = tk.DISABLED
    stop_btn,
    displayed,       \* last snapshot handed to _update_display (NoState before)
    \* --- history of the harness (observers only, never read by the actions) ---
    published,       \* number of snapshots put into the queue so far
    dropped,         \* seq of the last snapshot a producer removed (drop-oldest), 0 = none
    raised,          \* per thread: run() left through `except Exception`
    afterStop,       \* per thread: -1, or the publishes it made since the stop flag
                     \* was set while it was running
    turn_seq,        \* seq of the published snapshot followed as the one carrying
                     \* page_turn_triggered, 0 = none followed yet
    turn_fate        \* "none", "queued", "applied" or "lost": what became of it

    ,
    \* --- tracker (dtw.py, ODTWTracker) ---
    ref,                 \* reference_chroma: sequence of n_frames chroma vectors
    page_end_indices,
    page_turn_offset,
    smoothing_window,
    penalties,           \* penalty_wait, penalty_step, penalty_skip, damping
    current_position,
    accumulated_costs,   \* function 0..n_frames-1 -> cost (Inf = np.inf)
    next_page_idx,
    is_running,
    is_finished,
    chroma_buffer,       \* deque(maxlen=max(1, smoothing_window)), oldest first
    returned,            \* TrackerState returned by the last step (NoSnapshot before)
    \* --- history of the tracker (observers only) ---
    nsteps,              \* step calls so far
    fin_state,           \* the TrackerState returned by the step that set is_finished
    mono,                \* position never decreased in an active step of this session
    reach,               \* per boundary: first active step with position >= threshold
    fired,               \* per boundary: [at |-> step that emitted it, n |-> events]
    before,              \* position, flags and finite cost cells before the last call
    active_steps         \* steps since construction or reset that ran _odtw_step

    ,
    \* --- recovery supervisor (recovery_odtw.py, RecoveryODTW over StandardODTW) ---
    rec_ref,             \* RecoveryODTW.ref
    recovery_threshold,
    avg_window,          \* cost_history.maxlen
    buffer_size,         \* chroma_history.maxlen
    odtw,                \* the StandardODTW: [current_position_index,
                         \*   accumulated_costs, chroma_buffer]
    cost_history,
    chroma_history,
    recovery_count,
    rec_out,             \* what the last step returned: [index, cost, recovered],
                         \*   raised when it left by an exception instead
    \* --- history of the supervisor (observers only) ---
    rsteps,              \* supervisor step calls so far
    pushed,              \* cost_history right after this step's cost was appended
    relocated,           \* the last step ran _reset_at_position
    scan_pos,            \* what _full_score_scan returned in the last step, -1: not run
    \* --- the live stream of a jump run (observers only) ---
    true_pos,            \* reference frame the live stream was at in the last step, -1: none
    since_jump,          \* steps fed after the frame of the backward jump, -1: no jump yet
    tracked,             \* before the jump every step returned true_pos, never recovering
    first_rec,           \* since_jump at the first recovered step from the jump on, -1: none
    rec_err,             \* distance of that step's position from true_pos
    \* --- the engine's last (re)start (observers only) ---
    restart_at,              \* 0, or the clamped position of the last relocation
    since_origin,        \* engine steps taken from that restart_at
    \* --- ring accumulator (chroma.py, AudioRingBuffer) ---
    ring_size,           \* AudioRingBuffer.size
    ring_buffer,         \* AudioRingBuffer.buffer, oldest sample first
    arrived              \* the initial zeros followed by every appended sample (observer)

hvars == <<stop_event, state_queue, worker_thread, threads, gui_pc, latest_state,
           after_polls, start_btn, stop_btn, displayed,
           published, dropped, raised, afterStop, turn_seq, turn_fate>>

tvars == <<ref, page_end_indices, page_turn_offset, smoothing_window, penalties,
           current_position, accumulated_costs, next_page_idx, is_running,
           is_finished, chroma_buffer, returned, nsteps, fin_state, mono, reach, fired,
           before, active_steps>>

rvars == <<rec_ref, recovery_threshold, avg_window, buffer_size, odtw, cost_history,
           chroma_history, recovery_count, rec_out, rsteps, pushed, relocated,
           scan_pos, true_pos, since_jump, tracked, first_rec, rec_err,
           restart_at, since_origin>>

bvars == <<ring_size, ring_buffer, arrived>>

vars == <<hvars, tvars, rvars, bvars>>

Threads == 1..MaxThreads

NoState == [seq |-> 0, is_finished |-> FALSE]

Last(s) == s[Len(s)]

\* threading.Thread.is_alive(): started and run() has not returned
IsAlive(t) == threads[t].pc \notin {"unborn", "dead"}

AliveThreads == {t \in Threads : IsAlive(t)}

\* threads between tracker.step and the end of their publish
InFlight == {t \in Threads : threads[t].pc \in {"put", "full_get", "put_again"}}

\* ------------------------------------------------------------------ tracker
\* What the harness reads of the TrackerState returned by tracker.step is
\* is_finished (main.py:92, 300).  The audio input is free, so the harness takes
\* either outcome; seq is filled in when the snapshot is published.
TrackerOutcomes == {[seq |-> 0, is_finished |-> f] : f \in BOOLEAN}

\* --------------------------------------------------------------- queue ops
\* queue.Queue.get_nowait(): removes and returns the oldest item
DropOldest(q) == Tail(q)

\* queue.Queue.put_nowait(): appends at the newest end
PutFront(q, s) == <<s>> \o q

PutNowait(q, s) == Append(q, s)

\* queue.Full is raised by put_nowait when maxsize items are queued
NeverFull(q) == FALSE

IsFull(q) == Len(q) >= QueueMax

\* ----------------------------------------------------------------- producer
\* after a successful put: `if state.is_finished: break`, else next loop turn
KeepLooping(s) == "loop"

AfterPublish(s) == IF s.is_finished THEN "dead" ELSE "loop"

Publish(t) ==
    LET s == [threads[t].state EXCEPT !.seq = published + 1] IN
    /\ state_queue' = PutNowait(state_queue, s)
    /\ published' = published + 1
    /\ threads' = [threads EXCEPT ![t] = [pc |-> AfterPublish(s), state |-> NoState]]
    /\ afterStop' = [afterStop EXCEPT ![t] = IF @ >= 0 /\ @ < 2 THEN @ + 1 ELSE @]

\* while not self.stop_event.is_set(): read, ring buffer, chroma, tracker.step
CaptureCycle(t) ==
    /\ threads[t].pc = "loop"
    /\ IF stop_event
       THEN threads' = [threads EXCEPT ![t].pc = "dead"]
       ELSE /\ published + Cardinality(InFlight) < MaxPublish
            /\ \E s \in TrackerOutcomes :
                 threads' = [threads EXCEPT ![t] = [pc |-> "put", state |-> s]]
    /\ UNCHANGED <<stop_event, state_queue, worker_thread, gui_pc, latest_state,
                   after_polls, start_btn, stop_btn, displayed, published, dropped,
                   raised, afterStop>>

\* try: self.state_queue.put_nowait(state)   except queue.Full: ...
PutFirst(t) ==
    /\ threads[t].pc = "put"
    /\ IF IsFull(state_queue)
       THEN /\ threads' = [threads EXCEPT ![t].pc = "full_get"]
            /\ UNCHANGED <<state_queue, published, afterStop>>
       ELSE Publish(t)
    /\ UNCHANGED <<stop_event, worker_thread, gui_pc, latest_state, after_polls,
                   start_btn, stop_btn, displayed, dropped, raised>>

\* try: self.state_queue.get_nowait()   except queue.Empty: pass
FullGet(t) ==
    /\ threads[t].pc = "full_get"
    /\ IF state_queue # <<>>
       THEN /\ state_queue' = DropOldest(state_queue)
            /\ dropped' = Head(state_queue).seq
       ELSE UNCHANGED <<state_queue, dropped>>
    /\ threads' = [threads EXCEPT ![t].pc = "put_again"]
    /\ UNCHANGED <<stop_event, worker_thread, gui_pc, latest_state, after_polls,
                   start_btn, stop_btn, displayed, published, raised, afterStop>>

\* self.state_queue.put_nowait(state) in the handler: a queue.Full raised here
\* is caught by `except Exception` of run(), which ends the thread
PutAgain(t) ==
    /\ threads[t].pc = "put_again"
    /\ IF IsFull(state_queue)
       THEN /\ threads' = [threads EXCEPT ![t] = [pc |-> "dead", state |-> NoState]]
            /\ raised' = [raised EXCEPT ![t] = TRUE]
            /\ UNCHANGED <<state_queue, published, afterStop>>
       ELSE /\ Publish(t)
            /\ UNCHANGED raised
    /\ UNCHANGED <<stop_event, worker_thread, gui_pc, latest_state, after_polls,
                   start_btn, stop_btn, displayed, dropped>>

Producer(t) == CaptureCycle(t) \/ PutFirst(t) \/ FullGet(t) \/ PutAgain(t)

\* ---------------------------------------------------------------------- GUI
\* stop_event.set() while threads are running: start of their last cycle
MarkStop == [t \in Threads |-> IF IsAlive(t) THEN 0 ELSE afterStop[t]]

\* _on_start, first part: stop_event.clear(), new tracker, then the drain loop
OnStart ==
    /\ gui_pc = "idle"
    /\ start_btn
    /\ \E t \in Threads : threads[t].pc = "unborn"
    /\ stop_event' = FALSE
    /\ gui_pc' = "start_drain"
    /\ UNCHANGED <<state_queue, worker_thread, threads, latest_state, after_polls,
                   start_btn, stop_btn, displayed, published, dropped,
                   raised, afterStop>>

\* while not self.state_queue.empty(): self.state_queue.get_nowait()
StartDrainGet ==
    /\ gui_pc = "start_drain"
    /\ state_queue # <<>>
    /\ state_queue' = DropOldest(state_queue)
    /\ UNCHANGED <<stop_event, worker_thread, threads, gui_pc, latest_state,
                   after_polls, start_btn, stop_btn, displayed, published, dropped,
                   raised, afterStop>>

\* queue empty: start the worker, set the buttons, call self._poll_state()
StartThread ==
    /\ gui_pc = "start_drain"
    /\ state_queue = <<>>
    /\ LET t == CHOOSE u \in Threads :
                  /\ threads[u].pc = "unborn"
                  /\ \A v \in Threads : threads[v].pc = "unborn" => u <= v
       IN /\ worker_thread' = t
          /\ threads' = [threads EXCEPT ![t].pc = "loop"]
    /\ start_btn' = FALSE
    /\ stop_btn' = TRUE
    /\ gui_pc' = "poll_drain"
    /\ latest_state' = NoState
    /\ UNCHANGED <<stop_event, state_queue, after_polls, displayed, published, dropped,
                   raised, afterStop>>

\* _on_stop
OnStop ==
    /\ gui_pc = "idle"
    /\ stop_btn
    /\ stop_event' = TRUE
    /\ start_btn' = TRUE
    /\ stop_btn' = FALSE
    /\ afterStop' = IF stop_event THEN afterStop ELSE MarkStop
    /\ UNCHANGED <<state_queue, worker_thread, threads, gui_pc, latest_state,
                   after_polls, displayed, published, dropped, raised>>

\* the tkinter timer runs a pending _poll_state callback
TimerFire ==
    /\ gui_pc = "idle"
    /\ after_polls > 0
    /\ after_polls' = after_polls - 1
    /\ gui_pc' = "poll_drain"
    /\ latest_state' = NoState
    /\ UNCHANGED <<stop_event, state_queue, worker_thread, threads, start_btn,
                   stop_btn, displayed, published, dropped,
                   raised, afterStop>>

\* latest_state = self.state_queue.get_nowait(): each item got replaces the last
KeepFirst(latest, got) == IF latest = NoState THEN got ELSE latest

PollTake(latest, got) == got

\* while True: latest_state = self.state_queue.get_nowait()
PollGet ==
    /\ gui_pc = "poll_drain"
    /\ state_queue # <<>>
    /\ latest_state' = PollTake(latest_state, Head(state_queue))
    /\ state_queue' = DropOldest(state_queue)
    /\ UNCHANGED <<stop_event, worker_thread, threads, gui_pc, after_polls,
                   start_btn, stop_btn, displayed, published, dropped,
                   raised, afterStop>>

\* except queue.Empty: break; then _update_display(latest_state) if any, then
\* reschedule or, with the stop flag set and the worker gone, reset the buttons
PollEnd ==
    /\ gui_pc = "poll_drain"
    /\ state_queue = <<>>
    /\ LET applied == latest_state
           fin == applied # NoState /\ applied.is_finished
           stopNow == stop_event \/ fin
           workerGone == worker_thread # 0 /\ ~IsAlive(worker_thread)
       IN /\ displayed' = IF applied # NoState THEN applied ELSE displayed
          /\ stop_event' = stopNow
          /\ after_polls' = IF ~stopNow THEN after_polls + 1 ELSE after_polls
          /\ start_btn' = IF fin \/ (stopNow /\ workerGone) THEN TRUE ELSE start_btn
          /\ stop_btn' = IF fin \/ (stopNow /\ workerGone) THEN FALSE ELSE stop_btn
          /\ afterStop' = IF fin /\ ~stop_event THEN MarkStop ELSE afterStop
    /\ gui_pc' = "idle"
    /\ latest_state' = NoState
    /\ UNCHANGED <<state_queue, worker_thread, threads, published, dropped, raised>>

Gui == OnStart \/ StartDrainGet \/ StartThread \/ OnStop \/ TimerFire \/ PollGet \/ PollEnd

\* ================================================================== numbers
\* Reals are fixed point: 1.0 is Unit, every value a multiple of 0.01.
Unit == 10 * 10

\* np.inf; Plus and CellCost keep it absorbing as IEEE arithmetic does
Inf == 2 ^ 30

Chroma == 1..NUM_CHROMA

Min2(a, b) == IF a <= b THEN a ELSE b

Max2(a, b) == IF a >= b THEN a ELSE b

Plus(a, b) == IF a = Inf \/ b = Inf THEN Inf ELSE a + b

RECURSIVE SumTo(_, _)
SumTo(f, n) == IF n = 0 THEN 0 ELSE f[n] + SumTo(f, n - 1)

\* floor of the square root
ISqrt(x) == CHOOSE r \in 0..(4 * Unit) : r * r <= x /\ (r + 1) * (r + 1) > x

\* np.linalg.norm
Norm(v) == ISqrt(SumTo([c \in Chroma |-> v[c] * v[c]], NUM_CHROMA))

\* np.dot of two fixed-point vectors
Dot(a, b) == SumTo([c \in Chroma |-> a[c] * b[c]], NUM_CHROMA) \div Unit

\* np.mean(np.array(buffer), axis=0)
MeanVector(buf) ==
    [c \in Chroma |-> SumTo([k \in 1..Len(buf) |-> buf[k][c]], Len(buf)) \div Len(buf)]

\* `if norm > 1e-4: v / norm else: v` (a non-zero vector of the grid has norm >= 0.01)
Normalize(v) ==
    LET n == Norm(v) IN
    IF n > 0 THEN [c \in Chroma |-> (v[c] * Unit) \div n] ELSE v

\* dot_prod = max(-1.0, min(1.0, dot_prod)); local_dist = 1.0 - dot_prod
LocalDist(live_vec, ref_vec) == Unit - Max2(-Unit, Min2(Unit, Dot(live_vec, ref_vec)))

\* deque(maxlen=m).append(x)
DequeAppend(buf, x, m) ==
    LET b == Append(buf, x) IN
    IF Len(b) > m THEN SubSeq(b, Len(b) - m + 1, Len(b)) ELSE b

\* ------------------------------------------------------------- chroma vectors
ZeroVec == [c \in Chroma |-> 0]

\* pitch class k sounding alone at loudness a (in hundredths)
Tone(k, a) == [c \in Chroma |-> IF c = k THEN a ELSE 0]

\* two pitch classes together, unit norm (0.6, 0.8)
Chord(j, k) == [c \in Chroma |-> IF c = j THEN 60 ELSE IF c = k THEN 80 ELSE 0]

\* reference scores handed to the tracker (L2-normalised columns)
Score7 == <<Tone(1, Unit), Tone(2, Unit), Tone(1, Unit), Tone(2, Unit),
            Chord(1, 2), Tone(1, Unit), Tone(2, Unit)>>

\* a score whose opening pitch class never returns
Score7b == <<Tone(1, Unit), Chord(1, 2), Chord(1, 2), Chord(1, 2),
             Tone(2, Unit), Tone(2, Unit), Tone(2, Unit)>>

\* raw live chroma frames the extractor may deliver (any loudness, silence)
LiveVectors == {Tone(1, 2 * Unit), Tone(2, Unit), ZeroVec}

\* RMS levels the extractor may deliver (below / above START_THRESHOLD_RMS)
RmsLevels == {0, 2}

\* =================================================================== tracker
n_frames == Len(ref)

num_turns == Len(page_end_indices)

total_pages == Len(page_end_indices) + 1

Frames == 0..(n_frames - 1)

\* _reset_state: accumulated_costs = np.full(n, inf); accumulated_costs[0] = 0.0
NoSource(n, origin) == [i \in 0..(n - 1) |-> Inf]

SingleSource(n, origin) == [i \in 0..(n - 1) |-> IF i = origin THEN 0 ELSE Inf]

\* new_costs[i] = local_dist + min(cost_wait, cost_step, cost_skip) * damping
CellCostUndamped(costs, i, dist, pen) ==
    LET cost_wait == Plus(costs[i], pen.wait)
        cost_step == IF i > 0 THEN Plus(costs[i - 1], pen.step) ELSE Inf
        cost_skip == IF i > 1 THEN Plus(costs[i - 2], pen.skip) ELSE Inf
        min_prev  == Min2(cost_wait, Min2(cost_step, cost_skip))
    IN IF min_prev = Inf THEN Inf ELSE dist + min_prev

CellCostBackward(costs, i, dist, pen) ==
    LET cost_wait == Plus(costs[i], pen.wait)
        cost_step == IF i > 0 THEN Plus(costs[i - 1], pen.step) ELSE Inf
        cost_skip == IF i > 1 THEN Plus(costs[i - 2], pen.skip) ELSE Inf
        cost_back == IF (i + 1) \in DOMAIN costs THEN Plus(costs[i + 1], pen.step) ELSE Inf
        min_prev  == Min2(Min2(cost_wait, cost_back), Min2(cost_step, cost_skip))
    IN IF min_prev = Inf THEN Inf ELSE dist + (min_prev * pen.damping) \div 100

CellCostNoStep(costs, i, dist, pen) ==
    LET cost_wait == Plus(costs[i], pen.wait)
        cost_skip == IF i > 1 THEN Plus(costs[i - 2], pen.skip) ELSE Inf
        min_prev  == Min2(cost_wait, cost_skip)
    IN IF min_prev = Inf THEN Inf ELSE dist + (min_prev * pen.damping) \div 100

CellCost(costs, i, dist, pen) ==
    LET cost_wait == Plus(costs[i], pen.wait)
        cost_step == IF i > 0 THEN Plus(costs[i - 1], pen.step) ELSE Inf
        cost_skip == IF i > 1 THEN Plus(costs[i - 2], pen.skip) ELSE Inf
        min_prev  == Min2(cost_wait, Min2(cost_step, cost_skip))
    IN IF min_prev = Inf THEN Inf ELSE dist + (min_prev * pen.damping) \div 100

\* start_scan = max(0, pos - W); end_scan = min(n, pos + W); range(start, end)
ScanWindowAll(n, pos, w) == 0..(n - 1)

ScanWindow(n, pos, w) == Max2(0, pos - w)..(Min2(n, pos + w) - 1)

\* `if new_costs[i] < best_cost` in ascending i: the lowest index of the minimum,
\* the old position when no cell of the window is finite
FirstInWindow(new_costs, win, pos) ==
    IF win = {} THEN pos ELSE CHOOSE i \in win : \A j \in win : i <= j

LastBest(new_costs, win, pos) ==
    IF \A i \in win : new_costs[i] = Inf THEN pos
    ELSE CHOOSE i \in win : /\ \A j \in win : new_costs[i] <= new_costs[j]
                            /\ \A j \in win : new_costs[j] = new_costs[i] => j <= i

FirstBest(new_costs, win, pos) ==
    IF \A i \in win : new_costs[i] = Inf THEN pos
    ELSE CHOOSE i \in win : /\ \A j \in win : new_costs[i] <= new_costs[j]
                            /\ \A j \in win : new_costs[j] = new_costs[i] => i <= j

\* _odtw_step / StandardODTW.step: smoothing, normalisation, windowed update
OdtwStepKeeping(refv, costs, pos, buf, buflen, live, w, pen) ==
    LET n         == Len(refv)
        buffer    == DequeAppend(buf, live, buflen)
        live_vec  == Normalize(MeanVector(buffer))
        win       == ScanWindow(n, pos, w)
        new_costs == [i \in 0..(n - 1) |->
                        IF i \in win
                        THEN CellCost(costs, i, LocalDist(live_vec, refv[i + 1]), pen)
                        ELSE costs[i]]
        best      == FirstBest(new_costs, win, pos)
    IN [costs |-> new_costs, index |-> best,
        cost |-> IF \A i \in win : new_costs[i] = Inf THEN Inf ELSE new_costs[best],
        buffer |-> buffer]

OdtwStep(refv, costs, pos, buf, buflen, live, w, pen) ==
    LET n         == Len(refv)
        buffer    == DequeAppend(buf, live, buflen)
        live_vec  == Normalize(MeanVector(buffer))
        win       == ScanWindow(n, pos, w)
        new_costs == [i \in 0..(n - 1) |->
                        IF i \in win
                        THEN CellCost(costs, i, LocalDist(live_vec, refv[i + 1]), pen)
                        ELSE Inf]
        best      == FirstBest(new_costs, win, pos)
    IN [costs |-> new_costs, index |-> best,
        cost |-> IF \A i \in win : new_costs[i] = Inf THEN Inf ELSE new_costs[best],
        buffer |-> buffer]

\* penalties and damping the live tracker is built with (settings.py)
TrackerPenalties == [wait |-> WAIT_PENALTY, step |-> STEP_PENALTY,
                     skip |-> SKIP_PENALTY, damping |-> DAMPING_FACTOR]

\* the same penalties with a damping of 0.1: old costs fade quickly
FadingPenalties == [wait |-> WAIT_PENALTY, step |-> STEP_PENALTY,
                    skip |-> SKIP_PENALTY, damping |-> 10]

\* threshold = self.page_end_indices[self.next_page_idx] - self.page_turn_offset
TurnThresholdNoOffset(j) == page_end_indices[j]

TurnThreshold(j) == page_end_indices[j] - page_turn_offset

\* _check_page_turn at position pos: [next, finished, new_page], new_page 0 = None
CheckPageTurnAll(pos, next, finished) ==
    LET crossed == {j \in (next + 1)..num_turns :
                      pos >= page_end_indices[j] - page_turn_offset}
        nx == IF (next + 1) \in crossed
              THEN CHOOSE j \in crossed : /\ \A k \in (next + 1)..j : k \in crossed
                                          /\ (j + 1) \notin crossed
              ELSE next
    IN IF next >= num_turns
       THEN [next |-> next,
             finished |-> finished \/ pos >= n_frames - FINISH_TOLERANCE,
             new_page |-> 0]
       ELSE [next |-> nx, finished |-> finished,
             new_page |-> IF nx > next THEN nx + 1 ELSE 0]

CheckPageTurnRewind(pos, next, finished) ==
    IF next > 0 /\ pos < TurnThreshold(next)
    THEN [next |-> next - 1, finished |-> finished, new_page |-> 0]
    ELSE IF next >= num_turns
    THEN [next |-> next,
          finished |-> finished \/ pos >= n_frames - FINISH_TOLERANCE,
          new_page |-> 0]
    ELSE IF pos >= TurnThreshold(next + 1)
         THEN [next |-> next + 1, finished |-> finished, new_page |-> next + 2]
         ELSE [next |-> next, finished |-> finished, new_page |-> 0]

CheckPageTurnEager(pos, next, finished) ==
    IF next >= num_turns
    THEN [next |-> next,
          finished |-> finished \/ pos >= n_frames - FINISH_TOLERANCE,
          new_page |-> 0]
    ELSE IF pos >= TurnThreshold(next + 1)
         THEN [next |-> next + 1,
               finished |-> finished \/ (/\ next + 1 >= num_turns
                                         /\ pos >= n_frames - FINISH_TOLERANCE),
               new_page |-> next + 2]
         ELSE [next |-> next, finished |-> finished, new_page |-> 0]

CheckPageTurn(pos, next, finished) ==
    IF next >= num_turns
    THEN [next |-> next,
          finished |-> finished \/ pos >= n_frames - FINISH_TOLERANCE,
          new_page |-> 0]
    ELSE IF pos >= TurnThreshold(next + 1)
         THEN [next |-> next + 1, finished |-> finished, new_page |-> next + 2]
         ELSE [next |-> next, finished |-> finished, new_page |-> 0]

\* _get_current_page
GetCurrentPage(pos) ==
    IF \E i \in 1..num_turns : pos < page_end_indices[i]
    THEN CHOOSE i \in 1..num_turns :
            /\ pos < page_end_indices[i]
            /\ \A j \in 1..(i - 1) : ~(pos < page_end_indices[j])
    ELSE total_pages

\* _calculate_measure_beat: time_sec = pos * hop / sr, 60 / bpm seconds per beat
Measure(pos) == (pos * HOP_LENGTH * BPM) \div (SAMPLE_RATE * 60 * BEATS_PER_MEASURE) + 1

Beat(pos) == (((pos * HOP_LENGTH * BPM) \div (SAMPLE_RATE * 60)) % BEATS_PER_MEASURE) + 1

\* `if self.is_running and not self.is_finished:` guards the alignment
AlwaysActive(running, finished) == TRUE

Active(running, finished) == running /\ ~finished

\* TrackerState(...) built at the end of step
Snapshot(pos, cost, rms, running, finished, new_page) ==
    [current_position    |-> pos,
     current_page        |-> GetCurrentPage(pos),
     total_pages         |-> total_pages,
     score_length        |-> n_frames,
     progress_fraction   |-> Min2(Unit, (pos * Unit) \div Max2(1, n_frames)),
     current_cost        |-> cost,
     rms_level           |-> rms,
     is_running          |-> running,
     is_finished         |-> finished,
     page_turn_triggered |-> new_page # 0,
     page_turn_target    |-> new_page,
     measure             |-> Measure(pos),
     beat                |-> Beat(pos)]

NoSnapshot == [current_position |-> -1]

Thresholds == [j \in 1..num_turns |-> page_end_indices[j] - page_turn_offset]

\* `if not self.is_running: if rms_level >= self.start_threshold_rms: is_running = True`
StartOnLoudOnly(running, rms) == rms >= START_THRESHOLD_RMS

StartDetected(running, rms) == running \/ rms >= START_THRESHOLD_RMS

\* what the last call found: position, flags, boundary index, finite cost cells
Before ==
    [current_position |-> current_position,
     is_running |-> is_running,
     is_finished |-> is_finished,
     next_page_idx |-> next_page_idx,
     finite |-> {i \in Frames : accumulated_costs[i] # Inf}]

\* ODTWTracker.step(live_chroma, rms_level) for a frame of lives at a level of levels
TrackerStepOn(lives, levels) ==
    /\ \E live \in lives, rms \in levels :
        LET running == StartDetected(is_running, rms)
            active  == Active(running, is_finished)
            o       == OdtwStep(ref, accumulated_costs, current_position,
                                chroma_buffer, Max2(1, smoothing_window), live,
                                SEARCH_WINDOW, penalties)
            pos     == IF active THEN o.index ELSE current_position
            pt      == IF active
                       THEN CheckPageTurn(pos, next_page_idx, is_finished)
                       ELSE [next |-> next_page_idx, finished |-> is_finished,
                             new_page |-> 0]
            cost    == IF active THEN o.cost ELSE 0
            snap    == Snapshot(pos, cost, rms, running, pt.finished, pt.new_page)
        IN /\ is_running' = running
           /\ current_position' = pos
           /\ accumulated_costs' = IF active THEN o.costs ELSE accumulated_costs
           /\ chroma_buffer' = IF active THEN o.buffer ELSE chroma_buffer
           /\ next_page_idx' = pt.next
           /\ is_finished' = pt.finished
           /\ returned' = snap
           /\ nsteps' = nsteps + 1
           /\ fin_state' = IF pt.finished /\ ~is_finished THEN snap ELSE fin_state
           /\ mono' = (mono /\ pos >= current_position)
           /\ reach' = [j \in 1..num_turns |->
                          IF reach[j] = 0 /\ active /\ pos >= Thresholds[j]
                          THEN nsteps + 1 ELSE reach[j]]
           /\ fired' = [j \in 1..num_turns |->
                          IF pt.new_page = j + 1
                          THEN [at |-> nsteps + 1, n |-> Min2(2, fired[j].n + 1)]
                          ELSE fired[j]]
           /\ before' = Before
           /\ active_steps' = IF active THEN active_steps + 1 ELSE active_steps
    /\ UNCHANGED <<ref, page_end_indices, page_turn_offset, smoothing_window, penalties>>

\* a step call with any frame the extractor may deliver
TrackerStep == nsteps < MaxSteps /\ TrackerStepOn(LiveVectors, RmsLevels)

\* ODTWTracker.reset()
TrackerReset ==
    /\ nsteps > 0
    /\ returned # NoSnapshot
    /\ current_position' = 0
    /\ accumulated_costs' = SingleSource(n_frames, 0)
    /\ next_page_idx' = 0
    /\ is_running' = FALSE
    /\ is_finished' = FALSE
    /\ chroma_buffer' = <<>>
    /\ returned' = NoSnapshot
    /\ fin_state' = NoSnapshot
    /\ mono' = TRUE
    /\ reach' = [j \in 1..num_turns |-> 0]
    /\ fired' = [j \in 1..num_turns |-> [at |-> 0, n |-> 0]]
    /\ before' = Before
    /\ active_steps' = 0
    /\ UNCHANGED <<ref, page_end_indices, page_turn_offset, smoothing_window, penalties,
                   nsteps>>

\* constructor arguments explored: reference, page ends, trigger offset, smoothing
TrackerConfigs ==
    {[ref |-> Score7, page_end_indices |-> <<3, 5>>, page_turn_offset |-> 1,
      smoothing_window |-> 1, penalties |-> TrackerPenalties],
     [ref |-> Score7, page_end_indices |-> <<2, 3>>, page_turn_offset |-> 1,
      smoothing_window |-> 2, penalties |-> TrackerPenalties],
     [ref |-> Score7, page_end_indices |-> <<>>, page_turn_offset |-> 0,
      smoothing_window |-> 1, penalties |-> TrackerPenalties],
     [ref |-> Score7b, page_end_indices |-> <<4, 6>>, page_turn_offset |-> 0,
      smoothing_window |-> 1, penalties |-> FadingPenalties]}

\* ODTWTracker.__init__ followed by _reset_state
TrackerConstructed(cfg) ==
    /\ ref = cfg.ref
    /\ page_end_indices = cfg.page_end_indices
    /\ page_turn_offset = cfg.page_turn_offset
    /\ smoothing_window = cfg.smoothing_window
    /\ penalties = cfg.penalties
    /\ current_position = 0
    /\ accumulated_costs = SingleSource(Len(cfg.ref), 0)
    /\ next_page_idx = 0
    /\ is_running = FALSE
    /\ is_finished = FALSE
    /\ chroma_buffer = <<>>
    /\ returned = NoSnapshot
    /\ nsteps = 0
    /\ fin_state = NoSnapshot
    /\ mono = TRUE
    /\ reach = [j \in 1..Len(cfg.page_end_indices) |-> 0]
    /\ fired = [j \in 1..Len(cfg.page_end_indices) |-> [at |-> 0, n |-> 0]]
    /\ before = [current_position |-> 0, is_running |-> FALSE, is_finished |-> FALSE,
                 next_page_idx |-> 0, finite |-> {0}]
    /\ active_steps = 0

\* the tracker _on_start builds is owned by its worker thread; the harness
\* specifications keep this one untouched
TrackerUnused ==
    TrackerConstructed([ref |-> Score7, page_end_indices |-> <<3, 5>>,
                        page_turn_offset |-> 1, smoothing_window |-> 1,
                        penalties |-> TrackerPenalties])

InitTracker == \E cfg \in TrackerConfigs : TrackerConstructed(cfg)

\* ======================================================= recovery supervisor
\* penalties and damping of StandardODTW (module constants of dtw_live_test.py)
EnginePenalties == [wait |-> ENGINE_WAIT, step |-> ENGINE_DIAGONAL,
                    skip |-> ENGINE_SKIP, damping |-> ENGINE_DAMPING]

\* StandardODTW.step(live_chroma_raw) on engine state e
EngineStep(e, live) ==
    LET o == OdtwStep(rec_ref, e.accumulated_costs, e.current_position_index,
                      e.chroma_buffer, ENGINE_SMOOTHING, live, SEARCH_WINDOW,
                      EnginePenalties)
    IN [engine |-> [current_position_index |-> o.index,
                    accumulated_costs |-> o.costs,
                    chroma_buffer |-> o.buffer],
        index |-> o.index, cost |-> o.cost]

\* StandardODTW.__init__
EngineInit(n) == [current_position_index |-> 0,
                  accumulated_costs |-> SingleSource(n, 0),
                  chroma_buffer |-> <<>>]

RECURSIVE SumCosts(_, _)
SumCosts(h, n) == IF n = 0 THEN 0 ELSE Plus(h[n], SumCosts(h, n - 1))

\* len(cost_history) == maxlen and np.mean(cost_history) > recovery_threshold
\* (mean > t exactly when sum > t * len)
DivergedEarly(h, maxlen, threshold) == SumCosts(h, Len(h)) > threshold * Len(h)

Diverged(h, maxlen, threshold) ==
    Len(h) = maxlen /\ SumCosts(h, Len(h)) > threshold * Len(h)

\* sum over the history of 1 - clip(dot(normalised live frame, reference frame))
WindowDistance(history, start) ==
    SumTo([k \in 1..Len(history) |->
             LocalDist(Normalize(history[k]), rec_ref[start + k])], Len(history))

\* live_matrix * ref_slice needs slices of equal length: with more history than
\* reference frames numpy raises ValueError, except that a one-frame reference
\* is broadcast against every history frame
ScanRaises(history) == Len(history) > Len(rec_ref) /\ Len(rec_ref) # 1

\* the distances of one start offset, summed (np.mean over equally many frames
\* orders the offsets as the sums do)
SliceDistance(history, st) ==
    IF Len(history) > Len(rec_ref)
    THEN SumTo([k \in 1..Len(history) |->
                  LocalDist(Normalize(history[k]), rec_ref[1])], Len(history))
    ELSE WindowDistance(history, st)

\* `if avg_dist < best_avg_dist`
BetterOrEqual(avg_dist, best_avg_dist) == avg_dist <= best_avg_dist

Better(avg_dist, best_avg_dist) == avg_dist < best_avg_dist

\* `for start in range(max_start + 1)` carrying best_pos and best_avg_dist
RECURSIVE ScanLoop(_, _, _, _, _)
ScanLoop(history, start, max_start, best_pos, best_avg_dist) ==
    IF start > max_start THEN best_pos
    ELSE LET avg_dist == SliceDistance(history, start) IN
         IF Better(avg_dist, best_avg_dist)
         THEN ScanLoop(history, start + 1, max_start, start, avg_dist)
         ELSE ScanLoop(history, start + 1, max_start, best_pos, best_avg_dist)

\* _full_score_scan: end of the best matching window
FullScoreScan(history, pos) ==
    LET n_history == Len(history)
        n_ref     == Len(rec_ref)
        max_start == Max2(0, n_ref - n_history)
        best_pos  == ScanLoop(history, 0, max_start, 0, Inf)
    IN IF n_history = 0 THEN pos ELSE best_pos + n_history - 1

\* _reset_at_position: clamp, single-source costs, clear the smoothing buffer
NoClamp(new_position, n) == new_position

ClampPosition(new_position, n) == Max2(0, Min2(new_position, n - 1))

ResetKeepingCosts(new_position) ==
    [current_position_index |-> ClampPosition(new_position, Len(rec_ref)),
     accumulated_costs |-> odtw.accumulated_costs,
     chroma_buffer |-> <<>>]

ResetAtPosition(new_position) ==
    LET p == ClampPosition(new_position, Len(rec_ref)) IN
    [current_position_index |-> p,
     accumulated_costs |-> [i \in 0..(Len(rec_ref) - 1) |-> IF i = p THEN 0 ELSE Inf],
     chroma_buffer |-> <<>>]

\* nothing returned yet
NoResult == [index |-> -1, cost |-> 0, recovered |-> FALSE, raised |-> FALSE]

\* the step left by an exception: nothing was returned
Raised == [index |-> -1, cost |-> 0, recovered |-> FALSE, raised |-> TRUE]

\* RecoveryODTW.step(live_chroma_raw) for a frame of lives
RecoveryStepOn(lives) ==
    /\ \E live \in lives :
        LET history == DequeAppend(chroma_history, live, buffer_size)
            first   == EngineStep(odtw, live)
            costs   == DequeAppend(cost_history, first.cost, avg_window)
            trigger == Diverged(costs, avg_window, recovery_threshold)
            new_pos == FullScoreScan(history, first.engine.current_position_index)
            again   == EngineStep(ResetAtPosition(new_pos), live)
        IN /\ chroma_history' = history
           /\ pushed' = costs
           /\ rsteps' = rsteps + 1
           /\ IF ~trigger
              THEN /\ odtw' = first.engine
                   /\ cost_history' = costs
                   /\ rec_out' = [index |-> first.index, cost |-> first.cost,
                                  recovered |-> FALSE, raised |-> FALSE]
                   /\ relocated' = FALSE
                   /\ scan_pos' = -1
                   /\ since_origin' = since_origin + 1
                   /\ UNCHANGED <<recovery_count, restart_at>>
              ELSE IF ScanRaises(history)
              THEN /\ odtw' = first.engine
                   /\ cost_history' = costs
                   /\ rec_out' = Raised
                   /\ relocated' = FALSE
                   /\ scan_pos' = -1
                   /\ since_origin' = since_origin + 1
                   /\ UNCHANGED <<recovery_count, restart_at>>
              ELSE /\ odtw' = again.engine
                   /\ cost_history' = <<>>
                   /\ recovery_count' = recovery_count + 1
                   /\ rec_out' = [index |-> again.index, cost |-> again.cost,
                                  recovered |-> TRUE, raised |-> FALSE]
                   /\ relocated' = TRUE
                   /\ scan_pos' = new_pos
                   /\ restart_at' = Max2(0, Min2(new_pos, Len(rec_ref) - 1))
                   /\ since_origin' = 1
    /\ UNCHANGED <<rec_ref, recovery_threshold, avg_window, buffer_size>>

RecoveryStep ==
    /\ rsteps < MaxSteps
    /\ RecoveryStepOn(LiveVectors)
    /\ UNCHANGED <<true_pos, since_jump, tracked, first_rec, rec_err>>

Score3 == <<Tone(1, Unit), Tone(2, Unit), Chord(1, 2)>>

Score1 == <<Tone(1, Unit)>>

\* constructor arguments explored: reference, threshold, K = avg_window,
\* M = buffer_size (K < M, K > M, M larger than the reference, one-frame reference)
RecoveryConfigs ==
    {[ref |-> Score7, recovery_threshold |-> 120, avg_window |-> 3, buffer_size |-> 2],
     [ref |-> Score7, recovery_threshold |-> 80, avg_window |-> 2, buffer_size |-> 3],
     [ref |-> Score3, recovery_threshold |-> 80, avg_window |-> 2, buffer_size |-> 4],
     [ref |-> Score1, recovery_threshold |-> 80, avg_window |-> 1, buffer_size |-> 2]}

\* RecoveryODTW.__init__
RecoveryConstructed(cfg) ==
    /\ rec_ref = cfg.ref
    /\ recovery_threshold = cfg.recovery_threshold
    /\ avg_window = cfg.avg_window
    /\ buffer_size = cfg.buffer_size
    /\ odtw = EngineInit(Len(cfg.ref))
    /\ cost_history = <<>>
    /\ chroma_history = <<>>
    /\ recovery_count = 0
    /\ rec_out = NoResult
    /\ rsteps = 0
    /\ pushed = <<>>
    /\ relocated = FALSE
    /\ scan_pos = -1
    /\ true_pos = -1
    /\ since_jump = -1
    /\ tracked = TRUE
    /\ first_rec = -1
    /\ rec_err = 0
    /\ restart_at = 0
    /\ since_origin = 0

RecoveryUnused ==
    RecoveryConstructed([ref |-> Score3, recovery_threshold |-> 80,
                         avg_window |-> 2, buffer_size |-> 4])

InitRecovery == \E cfg \in RecoveryConfigs : RecoveryConstructed(cfg)

\* ========================================================== ring accumulator
\* sample values told apart from the zeros the buffer starts with
Samples == {1, 2}

\* sizes explored for AudioRingBuffer(size)
RingSizes == 1..3

\* the blocks of n samples
Blocks(n) == [1..n -> Samples]

\* AudioRingBuffer.__init__: np.zeros(size)
RingConstructed(size) ==
    /\ ring_size = size
    /\ ring_buffer = [i \in 1..size |-> 0]
    /\ arrived = [i \in 1..size |-> 0]

RingUnused == RingConstructed(1)

\* np.roll(buffer, -n): element i of the result is element i + n of buffer, cyclically
NoRoll(b, n) == b

Roll(b, n) == [i \in 1..Len(b) |-> b[((i - 1 + n) % Len(b)) + 1]]

\* buffer[-n:] = new_data
SetTail(b, new_data) ==
    [i \in 1..Len(b) |->
        IF i > Len(b) - Len(new_data) THEN new_data[i - (Len(b) - Len(new_data))] ELSE b[i]]

\* AudioRingBuffer.append(new_data) with 1 <= len(new_data) <= size
RingAppend ==
    /\ Len(arrived) - ring_size < MaxSamples
    /\ \E n \in 1..ring_size : \E new_data \in Blocks(n) :
          /\ ring_buffer' = SetTail(Roll(ring_buffer, n), new_data)
          /\ arrived' = arrived \o new_data
    /\ UNCHANGED ring_size

\* ------------------------------------------------------------ specifications
\* PageTurnerGUI.__init__
HarnessConstructed ==
    /\ stop_event = FALSE
    /\ state_queue = <<>>
    /\ worker_thread = 0
    /\ threads = [t \in Threads |-> [pc |-> "unborn", state |-> NoState]]
    /\ gui_pc = "idle"
    /\ latest_state = NoState
    /\ after_polls = 0
    /\ start_btn = TRUE
    /\ stop_btn = FALSE
    /\ displayed = NoState
    /\ published = 0
    /\ dropped = 0
    /\ raised = [t \in Threads |-> FALSE]
    /\ afterStop = [t \in Threads |-> -1]
    /\ turn_seq = 0
    /\ turn_fate = "none"

InitHarness == HarnessConstructed /\ TrackerUnused /\ RecoveryUnused /\ RingUnused

NextHarness ==
    \/ Gui /\ UNCHANGED <<bvars, tvars, rvars, turn_seq, turn_fate>>
    \/ \E t \in Threads : Producer(t) /\ UNCHANGED <<bvars, tvars, rvars, turn_seq, turn_fate>>

SpecHarness == InitHarness /\ [][NextHarness]_vars

\* One producer at a time: START is clicked only when no worker thread is alive.
NextSingle ==
    \/ (OnStart /\ AliveThreads = {}) /\ UNCHANGED <<bvars, tvars, rvars, turn_seq, turn_fate>>
    \/ (StartDrainGet \/ StartThread \/ OnStop \/ TimerFire \/ PollGet \/ PollEnd)
         /\ UNCHANGED <<bvars, tvars, rvars, turn_seq, turn_fate>>
    \/ \E t \in Threads : Producer(t) /\ UNCHANGED <<bvars, tvars, rvars, turn_seq, turn_fate>>

SpecSingle == InitHarness /\ [][NextSingle]_vars

\* TrackerState.page_turn_triggered is a one-shot flag of a single snapshot
\* (dtw.py 139-146): one published snapshot that does not finish the piece is
\* followed as the one carrying it. It is applied when _update_display is
\* called with it (main.py 332-334) and lost when it is neither in the queue
\* nor in _poll_state's latest_state any more without having been applied.
HoldsTurn(q, latest, seq) ==
    latest.seq = seq \/ \E k \in 1..Len(q) : q[k].seq = seq

ObserveTurn ==
    IF turn_seq = 0
    THEN IF published' # published /\ ~Last(state_queue').is_finished
         THEN \E follow \in BOOLEAN :
                 /\ turn_seq' = IF follow THEN published' ELSE 0
                 /\ turn_fate' = IF follow THEN "queued" ELSE "none"
         ELSE UNCHANGED <<turn_seq, turn_fate>>
    ELSE /\ turn_seq' = turn_seq
         /\ turn_fate' = IF turn_fate \in {"applied", "lost"} THEN turn_fate
                         ELSE IF displayed'.seq = turn_seq THEN "applied"
                         ELSE IF HoldsTurn(state_queue', latest_state', turn_seq)
                              THEN "queued"
                              ELSE "lost"

\* The single-producer harness with the page-turn snapshot followed.
NextTurns ==
    \/ (OnStart /\ AliveThreads = {}) /\ ObserveTurn /\ UNCHANGED <<bvars, tvars, rvars>>
    \/ (StartDrainGet \/ StartThread \/ OnStop \/ TimerFire \/ PollGet \/ PollEnd)
         /\ ObserveTurn /\ UNCHANGED <<bvars, tvars, rvars>>
    \/ \E t \in Threads : Producer(t) /\ ObserveTurn /\ UNCHANGED <<bvars, tvars, rvars>>

SpecTurns == InitHarness /\ [][NextTurns]_vars

\* Sessions in which STOP is never clicked: START, the worker, and the GUI
\* thread, which runs every handler it has begun and every pending timer
\* callback (the tkinter main loop).
GuiRuns ==
    (StartDrainGet \/ StartThread \/ TimerFire \/ PollGet \/ PollEnd)
       /\ UNCHANGED <<bvars, tvars, rvars, turn_seq, turn_fate>>

NextSession ==
    \/ (OnStart /\ AliveThreads = {}) /\ UNCHANGED <<bvars, tvars, rvars, turn_seq, turn_fate>>
    \/ GuiRuns
    \/ \E t \in Threads : Producer(t) /\ UNCHANGED <<bvars, tvars, rvars, turn_seq, turn_fate>>

SpecSession == InitHarness /\ [][NextSession]_vars /\ WF_vars(GuiRuns)

\* The tracker alone: construction, step and reset calls with any input.
InitTracking == InitTracker /\ HarnessConstructed /\ RecoveryUnused /\ RingUnused

NextTracking ==
    \/ TrackerStep /\ UNCHANGED <<bvars, hvars, rvars>>
    \/ TrackerReset /\ UNCHANGED <<bvars, hvars, rvars>>

SpecTracker == InitTracking /\ [][NextTracking]_vars

\* The supervisor alone: construction and step calls with any live frame.
InitSupervising == InitRecovery /\ HarnessConstructed /\ TrackerUnused /\ RingUnused

NextSupervising == RecoveryStep /\ UNCHANGED <<bvars, hvars, tvars>>

SpecRecovery == InitSupervising /\ [][NextSupervising]_vars

\* The supervisor fed its own reference frame for frame, with one backward
\* jump of the live stream by more than the search radius.
Score10 == [k \in 1..10 |-> Tone(k, Unit)]

Abs(x) == IF x < 0 THEN 0 - x ELSE x

JumpConfigs ==
    {[ref |-> Score10, recovery_threshold |-> t, avg_window |-> k, buffer_size |-> m] :
        t \in {100, 150, 200, 400}, k \in {1, 2}, m \in {2, 4}}

InitJump ==
    /\ \E cfg \in JumpConfigs : RecoveryConstructed(cfg)
    /\ HarnessConstructed
    /\ TrackerUnused
    /\ RingUnused

\* what the run records of the step that was fed reference frame pos
FedFrame(pos, after) ==
    LET first == after # -1 /\ first_rec = -1 /\ rec_out'.recovered IN
    /\ true_pos' = pos
    /\ since_jump' = after
    /\ tracked' = IF after # -1 THEN tracked
                   ELSE tracked /\ rec_out'.index = pos /\ ~rec_out'.recovered
    /\ first_rec' = IF first THEN after ELSE first_rec
    /\ rec_err' = IF first THEN Abs(rec_out'.index - pos) ELSE rec_err

\* the live stream plays the next frame of the score
FeedNext ==
    /\ true_pos + 1 < Len(rec_ref)
    /\ RecoveryStepOn({rec_ref[true_pos + 2]})
    /\ FedFrame(true_pos + 1, IF since_jump = -1 THEN -1 ELSE since_jump + 1)

\* the live stream jumps back by jump > SEARCH_WINDOW frames, once
FeedJump ==
    /\ since_jump = -1
    /\ tracked
    /\ \E jump \in (SEARCH_WINDOW + 1)..(true_pos + 1) :
          /\ RecoveryStepOn({rec_ref[true_pos + 2 - jump]})
          /\ FedFrame(true_pos + 1 - jump, 0)

NextJump ==
    \/ FeedNext /\ UNCHANGED <<bvars, hvars, tvars>>
    \/ FeedJump /\ UNCHANGED <<bvars, hvars, tvars>>

SpecJump == InitJump /\ [][NextJump]_vars

\* ------------------------------------------------- the tracker fed its own score
\* seven pairwise distinct unit vectors
Pool == <<Tone(1, Unit), Tone(2, Unit), Chord(1, 2), Tone(3, Unit),
          Chord(2, 1), Chord(1, 3), Chord(3, 2)>>

\* the n pool vectors from the k-th on, cyclically: a score of n distinct frames
Rotation(k, n) == [i \in 1..n |-> Pool[((k + i - 2) % Len(Pool)) + 1]]

\* wait, step and skip cost nothing
ZeroPenalties == [wait |-> 0, step |-> 0, skip |-> 0, damping |-> DAMPING_FACTOR]

\* scores of every length up to the pool, without page boundaries or with one
\* boundary at frame Len(Pool) - 2 (two frames before the end of the longest)
DiagonalConfigs ==
    {[ref |-> Rotation(k, n), page_end_indices |-> pages, page_turn_offset |-> 0,
      smoothing_window |-> 1, penalties |-> ZeroPenalties] :
        k \in 1..Len(Pool), n \in 1..Len(Pool), pages \in {<<>>, <<Len(Pool) - 2>>}}

\* energies at or above the start threshold
LoudLevels == {r \in RmsLevels \cup {START_THRESHOLD_RMS} : r >= START_THRESHOLD_RMS}

InitDiagonal ==
    /\ \E cfg \in DiagonalConfigs : TrackerConstructed(cfg)
    /\ HarnessConstructed
    /\ RecoveryUnused
    /\ RingUnused

\* step t is fed reference frame t
DiagonalStep ==
    /\ nsteps < n_frames
    /\ TrackerStepOn({ref[nsteps + 1]}, LoudLevels)

NextDiagonal == DiagonalStep /\ UNCHANGED <<bvars, hvars, rvars>>

SpecDiagonal == InitDiagonal /\ [][NextDiagonal]_vars

\* The ring accumulator alone: construction and appends of any block that fits.
InitRing ==
    /\ \E size \in RingSizes : RingConstructed(size)
    /\ HarnessConstructed
    /\ TrackerUnused
    /\ RecoveryUnused

NextRing == RingAppend /\ UNCHANGED <<hvars, tvars, rvars>>

SpecRing == InitRing /\ [][NextRing]_vars

\* Both alignment objects are built; a run drives one of them (main.py drives a
\* tracker, the offline study a supervisor), so the first step settles which.
InitCore == InitTracker /\ InitRecovery /\ HarnessConstructed /\ RingUnused

NextCore ==
    \/ rsteps = 0 /\ TrackerStep /\ UNCHANGED <<bvars, hvars, rvars>>
    \/ rsteps = 0 /\ TrackerReset /\ UNCHANGED <<bvars, hvars, rvars>>
    \/ nsteps = 0 /\ RecoveryStep /\ UNCHANGED <<bvars, hvars, tvars>>

SpecCore == InitCore /\ [][NextCore]_vars

\* =================================================================== claims
InPublish(t) == threads[t].pc \in {"put", "full_get", "put_again"}

\* C1: with one producer and the polling consumer, every publish completes
\* without blocking (the producer always has a step to take) and without
\* raising; a publish that found the channel full removes exactly the oldest
\* queued snapshot, a put on a channel with room removes nothing, and when the
\* publish completes the snapshot just published is the newest item queued.
C1_PublishLatestWins ==
    [][\A t \in Threads :
         /\ ~raised'[t]
         /\ InPublish(t) => ENABLED Producer(t)
         /\ (InPublish(t) /\ ~InPublish(t)') =>
               /\ published' = published + 1
               /\ state_queue' # <<>>
               /\ Last(state_queue') =
                     [threads[t].state EXCEPT !.seq = published']
               /\ SubSeq(state_queue', 1, Len(state_queue') - 1) = state_queue
         /\ (threads[t].pc = "full_get" /\ threads'[t].pc = "put_again") =>
               /\ IsFull(state_queue) => state_queue' = Tail(state_queue)
               /\ Len(state_queue') >= Len(state_queue) - 1
      ]_vars

\* C1 witness: the channel was full, a producer removed the oldest snapshot and
\* its own snapshot is now the newest of a full channel.
C1_Witness ==
    /\ dropped > 0
    /\ Len(state_queue) = QueueMax
    /\ Last(state_queue).seq = published
    /\ Head(state_queue).seq = published - QueueMax + 1
    /\ \A t \in Threads : ~raised[t]

\* C6 as claimed: a consumer tick ends with the channel empty and applies at
\* most one snapshot, the last one it drained, which is the newest snapshot
\* published so far; the applied snapshots are strictly increasing in publish
\* order.
C6_PollAppliesNewestPublished ==
    [][(gui_pc = "poll_drain" /\ gui_pc' = "idle") =>
         /\ state_queue' = <<>>
         /\ (latest_state = NoState) => displayed' = displayed
         /\ (latest_state # NoState) =>
               /\ displayed' = latest_state
               /\ displayed'.seq = published
               /\ displayed'.seq > displayed.seq
      ]_vars

\* C6 as amended: every snapshot a tick drains is newer than the one drained
\* before it, the tick ends with the channel empty and applies only the last
\* one drained; the applied snapshots are strictly increasing in publish order,
\* and the applied one is the newest published unless a producer's overflow
\* handling has removed a newer one from the channel.
C6_PollAppliesNewestDrained ==
    [][/\ (gui_pc = "poll_drain" /\ gui_pc' = "poll_drain"
            /\ threads' = threads /\ state_queue' # state_queue) =>
            /\ latest_state' = Head(state_queue)
            /\ latest_state'.seq > latest_state.seq
            /\ latest_state'.seq > displayed.seq
       /\ (gui_pc = "poll_drain" /\ gui_pc' = "idle") =>
            /\ state_queue' = <<>>
            /\ (latest_state = NoState) => displayed' = displayed
            /\ (latest_state # NoState) =>
                  /\ displayed' = latest_state
                  /\ displayed'.seq > displayed.seq
                  /\ displayed'.seq = published \/ dropped > displayed'.seq
      ]_vars

\* C6 witness: a tick drained a backlog and applied the newest snapshot,
\* skipping older ones that were never displayed.
C6_Witness ==
    /\ gui_pc = "idle"
    /\ displayed.seq = published
    /\ published >= QueueMax
    /\ state_queue = <<>>
    /\ dropped = 0

\* C7: at most one producer thread is alive at any time.
C7_AtMostOneProducer == Cardinality(AliveThreads) <= 1

\* C8: a producer that was running when the stop flag was set publishes at
\* most one further snapshot (and then terminates).
C8_StopEndsProducer == \A t \in Threads : afterStop[t] <= 1

\* C9: the consumer has a poll pending or running until it has observed the
\* stop flag set with the producer terminated, or has applied a finished
\* snapshot.
C9_ConsumerKeepsPolling ==
    (/\ worker_thread # 0
     /\ gui_pc = "idle"
     /\ ~displayed.is_finished
     /\ ~(stop_event /\ ~IsAlive(worker_thread)))
    => after_polls > 0

\* ------------------------------------------------------------------ C2
\* a step call of the tracker (reset leaves nsteps alone)
IsStep == nsteps' = nsteps + 1

\* C2: once a step has returned finished, every further step leaves the position
\* and the cost array unchanged and returns a snapshot equal in every field to
\* the snapshot of the step that set finished.
C2_FinishedStepsAreNoOps ==
    [][(is_finished /\ IsStep) =>
          /\ current_position' = current_position
          /\ accumulated_costs' = accumulated_costs
          /\ returned' = fin_state]_vars

\* ------------------------------------------------------------------ C3
\* the thresholds are reached at pairwise distinct steps
DistinctReach ==
    \A i, j \in 1..num_turns :
        (i # j /\ reach[i] # 0 /\ reach[j] # 0) => reach[i] # reach[j]

\* C3: with strictly increasing boundaries, a position that never moves back
\* and thresholds reached at distinct steps, each boundary j has at most one
\* snapshot with page_turn_triggered and target j + 1, it exists as soon as the
\* threshold is reached and is the snapshot of the first step with
\* position >= b[j] - o; every snapshot reports total pages = k + 1.
C3_TurnFiresOnceAtFirstReach ==
    (mono /\ DistinctReach) =>
        /\ \A j \in 1..num_turns :
              /\ fired[j].n <= 1
              /\ reach[j] # 0 => (fired[j].n = 1 /\ fired[j].at = reach[j])
              /\ reach[j] = 0 => fired[j].n = 0
        /\ returned # NoSnapshot => returned.total_pages = num_turns + 1

C3_Witness ==
    /\ mono /\ DistinctReach
    /\ num_turns = 2
    /\ fired[1].n = 1 /\ fired[2].n = 1
    /\ 0 < reach[1] /\ reach[1] < reach[2]
    /\ returned.total_pages = 3

\* ------------------------------------------------------------------ C4
\* C4: one step increments next_page_idx by at most one and emits at most one
\* page turn, for the lowest unfired boundary; a boundary whose threshold the
\* position has crossed fires on the next active step that finds it lowest.
C4_OneBoundaryPerStep ==
    [][IsStep =>
          /\ next_page_idx' \in {next_page_idx, next_page_idx + 1}
          /\ returned'.page_turn_triggered <=> (next_page_idx' = next_page_idx + 1)
          /\ returned'.page_turn_triggered =>
                returned'.page_turn_target = next_page_idx + 2
          /\ ~returned'.page_turn_triggered => returned'.page_turn_target = 0
          /\ (/\ is_running' /\ ~is_finished
              /\ next_page_idx < num_turns
              /\ current_position' >= Thresholds[next_page_idx + 1])
             => next_page_idx' = next_page_idx + 1]_vars

\* two thresholds crossed by the same step, only the first boundary fired by it
C4_Witness ==
    /\ num_turns = 2
    /\ reach[1] # 0 /\ reach[1] = reach[2]
    /\ fired[1].n = 1 /\ fired[1].at = reach[1]
    /\ fired[2].n = 0
    /\ next_page_idx = 1

\* ------------------------------------------------------------------ C5
\* C5: after construction, reset, step calls and supervisor relocations the
\* position of the tracker and of the supervised engine is an index of the
\* reference, 0 <= position < N.
C5_PositionInRange ==
    /\ current_position \in Frames
    /\ odtw.current_position_index \in 0..(Len(rec_ref) - 1)

\* a relocation whose scan result lay beyond the reference and was clamped
C5_Witness ==
    /\ relocated
    /\ Len(chroma_history) > Len(rec_ref)
    /\ odtw.current_position_index = Len(rec_ref) - 1

\* ------------------------------------------------------------------ C10
\* C10: a supervisor step returns recovered = true exactly when, after pushing
\* this step's cost, cost_history is full and its mean exceeds the threshold;
\* in every other step the engine is not relocated.
C10_RecoveredIffDiverged ==
    rsteps > 0 =>
        /\ (~rec_out.raised /\ rec_out.recovered)
              <=> Diverged(pushed, avg_window, recovery_threshold)
        /\ ~Diverged(pushed, avg_window, recovery_threshold) => ~relocated

\* ------------------------------------------------------------------ C11
\* a step call of the supervisor
IsRecoveryStep == rsteps' = rsteps + 1

\* C11: at the end of every supervisor step that returns recovered = true,
\* chroma_history and cost_history are empty, the engine's smoothing buffer was
\* cleared before the re-issued step (it holds that step's frame only) and
\* recovery_count is one greater than before the step.
C11_RecoveryClearsHistories ==
    [][(IsRecoveryStep /\ rec_out'.recovered) =>
          /\ chroma_history' = <<>>
          /\ cost_history' = <<>>
          /\ Len(odtw'.chroma_buffer) = 1
          /\ recovery_count' = recovery_count + 1]_vars

\* ------------------------------------------------------------------ C12
\* C12: when the divergence condition holds and more live frames are buffered
\* than the reference has frames, the rescan is skipped: the step does not
\* raise and the engine is not relocated.
C12_RescanSkippedOnShortReference ==
    (/\ rsteps > 0
     /\ Diverged(pushed, avg_window, recovery_threshold)
     /\ Len(chroma_history) > Len(rec_ref))
    => (~rec_out.raised /\ ~relocated)

\* ------------------------------------------------------------------ C13
\* C13: while chroma_history holds fewer than buffer_size frames no supervisor
\* step returns recovered = true and no relocation happens.
C13_NoRecoveryBeforeHistoryFull ==
    Len(chroma_history) < buffer_size => (~rec_out.recovered /\ ~relocated)

\* ------------------------------------------------------------------ C14
\* start offset s is a best match of the history: no offset is closer, and no
\* smaller offset is as close
BestStart(history, s) ==
    /\ s \in 0..(Len(rec_ref) - Len(history))
    /\ \A u \in 0..(Len(rec_ref) - Len(history)) :
          /\ WindowDistance(history, s) <= WindowDistance(history, u)
          /\ WindowDistance(history, u) = WindowDistance(history, s) => s <= u

OutsideWindow(i, p) ==
    i < Max2(0, p - SEARCH_WINDOW) \/ i >= Min2(n_frames, p + SEARCH_WINDOW)

\* C15: after every active step, with p the position before the step, the cost
\* of every index outside the scan window around p is +infinity.
C15_CostsOutsideWindowAreInf ==
    [][(IsStep /\ is_running' /\ ~is_finished) =>
          \A i \in Frames :
              OutsideWindow(i, current_position) => accumulated_costs'[i] = Inf]_vars

\* an active step that dropped a finite cost lying outside its window
C15_Witness ==
    /\ returned # NoSnapshot
    /\ is_running /\ ~before.is_finished
    /\ \E i \in before.finite :
          OutsideWindow(i, before.current_position) /\ accumulated_costs[i] = Inf

\* ------------------------------------------------------------------ C16
\* C16: when a step of a running tracker ends with every boundary fired and
\* the position within the tolerance of the end, the snapshot of that same
\* step has finished = true.
C16_FinishedOnSameStep ==
    (/\ returned # NoSnapshot
     /\ returned.is_running
     /\ next_page_idx = num_turns
     /\ current_position >= n_frames - FINISH_TOLERANCE)
    => returned.is_finished

\* ------------------------------------------------------------------ C17
\* C17: while not running, a step with energy below the start threshold leaves
\* position, cost array, smoothing buffer, boundary index and finished
\* unchanged and returns running = false, page_turn_triggered = false.
C17_IdleStepChangesNothing ==
    [][(IsStep /\ ~is_running /\ returned'.rms_level < START_THRESHOLD_RMS) =>
          /\ current_position' = current_position
          /\ accumulated_costs' = accumulated_costs
          /\ chroma_buffer' = chroma_buffer
          /\ next_page_idx' = next_page_idx
          /\ is_finished' = is_finished
          /\ ~returned'.is_running
          /\ ~returned'.page_turn_triggered]_vars

\* an idle step answered after an earlier one
C17_Witness ==
    /\ nsteps >= 2
    /\ returned # NoSnapshot
    /\ ~returned.is_running
    /\ returned.rms_level < START_THRESHOLD_RMS
    /\ ~before.is_running

\* ------------------------------------------------------------------ C18
\* a reset() call that finds a used tracker
IsReset == returned # NoSnapshot /\ returned' = NoSnapshot

\* C18: immediately after reset(), cost[0] = 0, every other cost is +infinity,
\* position = 0, running and finished are false, the boundary index is 0 and
\* the smoothing buffer is empty.
C18_ResetRestoresInitialState ==
    [][IsReset =>
          /\ accumulated_costs' = [i \in Frames |-> IF i = 0 THEN 0 ELSE Inf]
          /\ current_position' = 0
          /\ ~is_running'
          /\ ~is_finished'
          /\ next_page_idx' = 0
          /\ chroma_buffer' = <<>>]_vars

\* the state right after resetting a finished tracker that had turned pages
C18_Witness ==
    /\ returned = NoSnapshot
    /\ before.is_finished /\ before.is_running
    /\ before.next_page_idx > 0 /\ before.current_position > 0
    /\ current_position = 0 /\ ~is_running /\ ~is_finished /\ next_page_idx = 0

\* ------------------------------------------------------------------ C20
\* C20: for two consecutive steps without a reset between them, the position
\* after the later one is at least the position after the earlier one minus
\* the search radius.
C20_PositionDropsAtMostRadius ==
    [][IsStep => current_position' >= current_position - SEARCH_WINDOW]_vars

\* a step that moved the position back by the whole search radius
C20_Witness ==
    /\ returned # NoSnapshot
    /\ before.current_position > SEARCH_WINDOW
    /\ current_position = before.current_position - SEARCH_WINDOW

\* ------------------------------------------------------------------ C19
\* C19 as stated: fed its own N distinct unit frames with zero penalties, the
\* tracker returns position min(t, N - 1) and cost 0 at frame t.
C19_DiagonalToEnd ==
    nsteps > 0 =>
        /\ current_position = Min2(nsteps - 1, n_frames - 1)
        /\ returned.current_cost = 0

\* C19 amended: the position is t and the cost 0 at every frame t up to the
\* step that sets finished; from then on the position stays where finished
\* was set, which without page boundaries is frame max(0, N - 5).
C19_DiagonalUntilFinished ==
    nsteps > 0 =>
        /\ returned.current_cost = 0
        /\ fin_state = NoSnapshot => current_position = nsteps - 1
        /\ fin_state # NoSnapshot =>
              /\ current_position = Min2(nsteps - 1, fin_state.current_position)
              /\ fin_state.current_cost = 0
        /\ num_turns = 0 =>
              (is_finished <=> nsteps - 1 >= Max2(0, n_frames - FINISH_TOLERANCE))
        /\ (num_turns = 0 /\ is_finished) =>
              fin_state.current_position = Max2(0, n_frames - FINISH_TOLERANCE)

\* the whole score was fed and the position stopped five frames before its end
C19_Witness ==
    /\ nsteps = n_frames
    /\ penalties = ZeroPenalties
    /\ is_finished
    /\ current_position = n_frames - FINISH_TOLERANCE
    /\ current_position > 0

\* ------------------------------------------------------------------ C21
\* C21: within a session next_page_idx never decreases and never exceeds the
\* number of boundaries, and each boundary fires at most once, also when the
\* position moves back below a fired threshold and crosses it again.
C21_BoundaryIndexMonotone ==
    [][IsStep =>
          /\ next_page_idx' >= next_page_idx
          /\ next_page_idx' <= num_turns
          /\ \A j \in 1..num_turns : fired'[j].n <= 1]_vars

\* the position fell below a fired threshold and has just crossed it again
C21_Witness ==
    /\ returned # NoSnapshot
    /\ \E j \in 1..num_turns :
          /\ fired[j].n = 1 /\ fired[j].at < nsteps
          /\ before.next_page_idx >= j
          /\ before.current_position < Thresholds[j]
          /\ current_position >= Thresholds[j]

\* ------------------------------------------------------------------ C22
\* C22: the page of every snapshot is 1 + the number of boundaries strictly
\* below the position, so a position equal to a boundary is still on the page
\* that ends there.
C22_PageContainsPosition ==
    returned # NoSnapshot =>
        returned.current_page
            = 1 + Cardinality({j \in 1..num_turns :
                                  page_end_indices[j] < returned.current_position})

\* ------------------------------------------------------------------ C23
\* C23: no step is ever executed by a tracker whose reference is empty or whose
\* page boundaries are not all inside [0, N).
C23_InvalidReferenceNeverSteps ==
    nsteps > 0 =>
        /\ n_frames > 0
        /\ \A j \in 1..num_turns : page_end_indices[j] \in Frames

\* ------------------------------------------------------------------ C28
\* C28: is_running turns true exactly on the first step with energy at or above
\* the start threshold, that call aligns its frame (the frame is the smoothing
\* buffer's only entry, the cost array is recomputed: finite exactly on the
\* cells a wait, step or skip reaches from frame 0), and is_running then
\* stays true on every later step whatever the energy.
C28_RunningLatchesOnFirstLoudStep ==
    [][IsStep =>
          /\ is_running' <=> (is_running \/ returned'.rms_level >= START_THRESHOLD_RMS)
          /\ returned'.is_running = is_running'
          /\ (~is_running /\ is_running') =>
                /\ Len(chroma_buffer') = 1
                /\ chroma_buffer' # chroma_buffer
                /\ \A i \in Frames :
                      accumulated_costs'[i] # Inf
                         <=> i < Min2(n_frames, Min2(SEARCH_WINDOW, 3))]_vars

\* a quiet step of a tracker that had started earlier
C28_Witness ==
    /\ returned # NoSnapshot
    /\ before.is_running
    /\ returned.is_running
    /\ returned.rms_level < START_THRESHOLD_RMS

\* ------------------------------------------------------------------ C29
\* C29: finished implies running and next_page_idx = number of boundaries;
\* finished stays true on every later step; the first finished snapshot never
\* carries page_turn_triggered.
C29_FinishedIsStableAndQuiet ==
    [][IsStep =>
          /\ is_finished' => (is_running' /\ next_page_idx' = num_turns)
          /\ is_finished => is_finished'
          /\ returned'.is_finished = is_finished'
          /\ (~is_finished /\ is_finished') => ~returned'.page_turn_triggered]_vars

\* the first finished snapshot of a tracker that had turned its pages
C29_Witness ==
    /\ is_finished
    /\ returned = fin_state
    /\ num_turns > 0
    /\ fired[num_turns].n = 1

\* ------------------------------------------------------------------ C26
\* the cheapest way into cell i: wait in i, step from i - 1, skip from i - 2
CheapestPredecessor(i) ==
    LET with(c, penalty) == IF c = Inf THEN Inf ELSE c + penalty
        costWait == with(accumulated_costs[i], penalties.wait)
        costStep == IF i > 0 THEN with(accumulated_costs[i - 1], penalties.step) ELSE Inf
        costSkip == IF i > 1 THEN with(accumulated_costs[i - 2], penalties.skip) ELSE Inf
    IN Min2(costWait, Min2(costStep, costSkip))

\* C26: on every active step each cell i of the window around the old position
\* gets localCost(i) + damping * min(wait, step, skip predecessor), and the
\* position becomes the lowest index with the smallest new cost of the window
\* (it is kept when every cell of the window is +infinity).
C26_WindowRecurrence ==
    [][(IsStep /\ is_running' /\ ~is_finished) =>
          LET lo   == Max2(0, current_position - SEARCH_WINDOW)
              hi   == Min2(n_frames, current_position + SEARCH_WINDOW) - 1
          IN \E live \in {Normalize(MeanVector(chroma_buffer'))} :
             \E newCost \in {[i \in lo..hi |->
                                LET cheapest == CheapestPredecessor(i) IN
                                IF cheapest = Inf THEN Inf
                                ELSE LocalDist(live, ref[i + 1])
                                        + (penalties.damping * cheapest) \div 100]} :
                /\ \A i \in lo..hi : accumulated_costs'[i] = newCost[i]
                /\ IF \A i \in lo..hi : newCost[i] = Inf
                   THEN current_position' = current_position
                   ELSE /\ current_position' \in lo..hi
                        /\ \A j \in lo..hi :
                              /\ newCost[current_position'] <= newCost[j]
                              /\ newCost[j] = newCost[current_position']
                                    => current_position' <= j]_vars

\* an active step that found its smallest cost in two cells of the window
C26_Witness ==
    /\ returned # NoSnapshot
    /\ is_running /\ ~before.is_finished
    /\ accumulated_costs[current_position] # Inf
    /\ \E j \in Frames :
          /\ j > current_position
          /\ ~OutsideWindow(j, before.current_position)
          /\ accumulated_costs[j] = accumulated_costs[current_position]


\* C24: the snapshot channel never holds more than its capacity of five
\* snapshots, whatever the producers and the consumer do.
C24_ChannelWithinCapacity == Len(state_queue) <= QueueMax

\* The channel is full again after a drop-oldest made room.
C24_Witness == Len(state_queue) = QueueMax /\ dropped > 0 /\ published > QueueMax


\* C27: a supervisor step that returns recovered == true returns the position and
\* cost of stepping the current frame through the core from the single-source
\* state at the clamped newPosition (cost 0 there, +infinity elsewhere, empty
\* smoothing buffer), and the position lies in newPosition..min(N-1, newPosition+2).
C27_RecoveredStepIsRestep ==
    rec_out.recovered =>
        LET n     == Len(rec_ref)
            np    == Max2(0, Min2(scan_pos, n - 1))
            fresh == [current_position_index |-> np,
                      accumulated_costs |-> [i \in 0..(n - 1) |-> IF i = np THEN 0 ELSE Inf],
                      chroma_buffer |-> <<>>]
            again == EngineStep(fresh, Last(chroma_history))
        IN /\ rec_out.index = again.index
           /\ rec_out.cost = again.cost
           /\ odtw = again.engine
           /\ np <= rec_out.index
           /\ rec_out.index <= Min2(n - 1, np + 2)

\* A recovered step whose returned cost differs from the cost computed before
\* the relocation and whose position moved on from newPosition.
C27_Witness ==
    /\ rec_out.recovered
    /\ rec_out.cost # Last(pushed)
    /\ rec_out.index > Max2(0, Min2(scan_pos, Len(rec_ref) - 1))


\* C30: every snapshot with page_turn_triggered that the producer publishes is
\* eventually applied by the consumer, so none is ever lost: neither removed
\* by the producer's drop-oldest nor passed over by a poll that applies only
\* the last snapshot it drained.
C30_PageTurnNeverLost == turn_fate # "lost"


\* C25: when a live stream that was tracked frame for frame jumps backward by
\* more than the search radius, a supervisor step returns recovered == true
\* within K = avg_window steps after the jump, and the position that step
\* returns is within M / 10 frames (M = buffer_size) of the stream's true position.
C25_BackwardJumpRecovered ==
    (tracked /\ since_jump >= 0) =>
        /\ since_jump >= avg_window => (first_rec # -1 /\ first_rec <= avg_window)
        /\ first_rec # -1 => 10 * rec_err <= buffer_size


\* the finished snapshot published as number seq is in the queue or in the
\* hands of a running poll
HeldFinished(q, latest, seq) ==
    \/ latest.seq = seq /\ latest.is_finished
    \/ \E k \in 1..Len(q) : q[k].seq = seq /\ q[k].is_finished

\* C31: with one producer at a time and no STOP click, nothing is published
\* after a finished snapshot while it waits, it stays in the channel until it
\* is applied, and with the GUI thread running its polls it is eventually
\* applied and the stop flag set.
C31_FinishedSnapshotArrives ==
    /\ [][\A seq \in 1..MaxPublish :
            HeldFinished(state_queue, latest_state, seq) =>
               /\ published' = published
               /\ \/ HeldFinished(state_queue', latest_state', seq)
                  \/ displayed'.seq = seq /\ displayed'.is_finished /\ stop_event']_vars
    /\ \A seq \in 1..MaxPublish :
          HeldFinished(state_queue, latest_state, seq)
             ~> (displayed.seq = seq /\ displayed.is_finished /\ stop_event)

\* A finished snapshot that went into a full channel through the drop-oldest
\* path has been applied and the stop flag is set.
C31_Witness ==
    /\ displayed.is_finished
    /\ displayed.seq = published
    /\ stop_event
    /\ dropped > 0
    /\ dropped + QueueMax = published


\* C32: whatever the order of START clicks, STOP clicks and timer ticks, at
\* most one _poll_state callback is scheduled at any time.
C32_OnePollScheduled == after_polls <= 1


\* lowest index holding a finite accumulated cost, n when there is none
LowestFinite(costs, n) ==
    IF \A i \in 0..(n - 1) : costs[i] = Inf THEN n
    ELSE CHOOSE i \in 0..(n - 1) :
            costs[i] # Inf /\ \A j \in 0..(i - 1) : costs[j] = Inf

\* C33: between resets and relocations the lowest index with a finite cost
\* never decreases, and after k active steps from origin o (0 after a reset,
\* newPosition after a recovery) the position lies in o..min(N-1, o + 2k).
C33_PositionFromOrigin ==
    [][/\ IsStep =>
            /\ LowestFinite(accumulated_costs', n_frames)
                  >= LowestFinite(accumulated_costs, n_frames)
            /\ current_position' >= 0
            /\ current_position' <= Min2(n_frames - 1, 2 * active_steps')
       /\ rsteps' = rsteps + 1 =>
            /\ ~rec_out'.recovered =>
                  LowestFinite(odtw'.accumulated_costs, Len(rec_ref))
                     >= LowestFinite(odtw.accumulated_costs, Len(rec_ref))
            /\ odtw'.current_position_index >= restart_at'
            /\ odtw'.current_position_index
                  <= Min2(Len(rec_ref) - 1, restart_at' + 2 * since_origin')]_vars

\* The engine, relocated to a later frame, has stepped on from there and
\* holds no finite cost before that frame.
C33_Witness ==
    /\ restart_at > 0
    /\ since_origin > 1
    /\ odtw.current_position_index > restart_at
    /\ LowestFinite(odtw.accumulated_costs, Len(rec_ref)) >= restart_at


\* C34: after every active step the cost at the position is finite, is the
\* minimum over the whole cost array, and is the cost the step's snapshot
\* reports.
C34_PositionHoldsMinimumCost ==
    [][(IsStep /\ is_running' /\ ~is_finished) =>
          /\ accumulated_costs'[current_position'] # Inf
          /\ \A i \in Frames : accumulated_costs'[current_position'] <= accumulated_costs'[i]
          /\ returned'.current_cost = accumulated_costs'[current_position']]_vars

\* An active step has left several finite cells, the position on the cheapest,
\* at a cost above zero.
C34_Witness ==
    /\ returned # NoSnapshot
    /\ returned.is_running
    /\ ~before.is_finished
    /\ returned.current_cost > 0
    /\ returned.current_cost = accumulated_costs[current_position]
    /\ \E i \in Frames : /\ accumulated_costs[i] # Inf
                         /\ accumulated_costs[i] > accumulated_costs[current_position]


\* C35: no supervisor step recovers during the first K - 1 steps of a session,
\* and any two recovered steps are at least K steps apart (K = avg_window).
C35_RecoveriesKApart ==
    [][(rsteps' = rsteps + 1 /\ rec_out'.recovered) =>
          /\ rsteps' >= avg_window
          /\ recovery_count > 0 => since_origin >= avg_window]_vars

\* A second recovery with K >= 2, exactly K steps after the first.
C35_Witness ==
    /\ rec_out.recovered
    /\ recovery_count >= 2
    /\ avg_window >= 2
    /\ rsteps = 2 * avg_window


\* C36: with damping d < 1 the cost reported by every active step is
\* non-negative and at most (2 + d * waitPenalty) / (1 - d); each active step
\* reports at most 2 + d * (cost at the old position + waitPenalty).
C36_CostBounded ==
    [][(IsStep /\ is_running' /\ ~is_finished) =>
          /\ returned'.current_cost >= 0
          /\ returned'.current_cost * (100 - penalties.damping)
                <= 2 * Unit * 100 + penalties.damping * penalties.wait
          /\ returned'.current_cost * 100
                <= 2 * Unit * 100
                   + penalties.damping * (accumulated_costs[current_position] + penalties.wait)]_vars

\* With the strong damping an active step reports a full unit of distance on
\* top of the damped cost of a path that already cost as much.
C36_Witness ==
    /\ returned # NoSnapshot
    /\ returned.is_running
    /\ ~before.is_finished
    /\ penalties = FadingPenalties
    /\ active_steps >= 3
    /\ returned.current_cost >= Unit + (penalties.damping * Unit) \div 100


\* C37: after any appends of blocks of 1..size samples the ring accumulator
\* holds exactly size samples, the last size samples of the initial zeros
\* followed by all appended blocks, in arrival order.
C37_RingHoldsNewestSamples ==
    /\ Len(ring_buffer) = ring_size
    /\ ring_buffer = SubSeq(arrived, Len(arrived) - ring_size + 1, Len(arrived))

\* More samples than the buffer holds have arrived in blocks shorter than the
\* buffer, and the buffer holds two different sample values.
C37_Witness ==
    /\ ring_size = 3
    /\ Len(arrived) = 2 * ring_size + 2
    /\ ring_buffer[1] = 1
    /\ ring_buffer[3] = 2

====
